---- MODULE Spec2Model ----
(***************************************************************************)
(* A model of real_estate_sim.py: the HousingMarket object (constructor    *)
(* argument resolution, run_simulation and its helpers).                   *)
(*                                                                         *)
(* Numbers.  Python/numpy floats are modelled as exact fractions           *)
(* [n |-> numerator, d |-> denominator] in lowest terms with d > 0,        *)
(* extended with the IEEE specials the code can produce:                   *)
(*   d = 0, n = 1 or -1 : +Infinity / -Infinity,   d = 0, n = 0 : NaN.     *)
(* Rounding is not modelled.  A pandas column (Series) is a sequence, a    *)
(* DataFrame a record of equally long columns whose field names are the    *)
(* column names of the code; the index after reset_index is position - 1.  *)
(* None is the empty tuple <<>>, a present value v is <<v>>.               *)
(***************************************************************************)
EXTENDS Integers, Sequences, FiniteSets, TLC

VARIABLES
    args,        \* the arguments of HousingMarket(...)
    ctor,        \* how __init__ ended: "pending", "ok", "unresolved", or an exception
    obj,         \* the attributes of self
    pc,          \* position inside run_simulation ("idle" between calls)
    y,           \* the years argument of the current / last call
    df,          \* the local df of run_simulation: a reference into frames
    frames,      \* the DataFrame objects alive: reference -> frame
    mort,        \* the locals p, rate_m, n of mortgage_payments
    ret,         \* what the last call returned: <<>> or <<[results, df]>>
    err,         \* the exception the last call raised, "" if none
    prev,        \* the years argument of the call before that one, <<>> if none
    pin,         \* calc_running_ptr_ratio called on its own: its inputs
    pout         \* ... and its outcome

vars == <<args, ctor, obj, pc, y, df, frames, mort, ret, err, prev, pin, pout>>

-----------------------------------------------------------------------------
(* Bounds of the model *)

MaxYears == 2

MaxRows == 13

-----------------------------------------------------------------------------
(* Float arithmetic *)

Abs(i) == IF i < 0 THEN 0 - i ELSE i

Sign(i) == IF i < 0 THEN 0 - 1 ELSE IF i > 0 THEN 1 ELSE 0

RECURSIVE GCD(_, _)
GCD(a, b) == IF b = 0 THEN a ELSE GCD(b, a % b)

\* the fraction n/d in lowest terms; d = 0 gives Infinity, -Infinity or NaN
Frac(n, d) ==
    IF d = 0 THEN [n |-> Sign(n), d |-> 0]
    ELSE LET g == GCD(Abs(n), Abs(d))
         IN  [n |-> Sign(d) * (n \div g), d |-> Abs(d) \div g]

Num(i) == [n |-> i, d |-> 1]

NaN == [n |-> 0, d |-> 0]

IsNaN(a) == a.d = 0 /\ a.n = 0

IsInf(a) == a.d = 0 /\ a.n # 0

IsZero(a) == a.d # 0 /\ a.n = 0

Neg(a) == [n |-> 0 - a.n, d |-> a.d]

Add(a, b) ==
    IF IsNaN(a) \/ IsNaN(b) THEN NaN
    ELSE IF IsInf(a) /\ IsInf(b) THEN (IF a.n = b.n THEN a ELSE NaN)
    ELSE IF IsInf(a) THEN a
    ELSE IF IsInf(b) THEN b
    ELSE LET g == GCD(a.d, b.d)
         IN  Frac(a.n * (b.d \div g) + b.n * (a.d \div g), (a.d \div g) * b.d)

Sub(a, b) == Add(a, Neg(b))

Mul(a, b) ==
    IF IsNaN(a) \/ IsNaN(b) THEN NaN
    ELSE IF a.d = 0 \/ b.d = 0
         THEN [n |-> Sign(a.n) * Sign(b.n), d |-> 0]   \* inf * 0 = NaN
    ELSE LET g1 == GCD(Abs(a.n), b.d)
             g2 == GCD(Abs(b.n), a.d)
         IN  Frac((a.n \div g1) * (b.n \div g2), (a.d \div g2) * (b.d \div g1))

\* numpy division: x/0 is +-Infinity, 0/0 is NaN, nothing is raised
NpDiv(a, b) ==
    IF IsNaN(a) \/ IsNaN(b) THEN NaN
    ELSE IF b.d = 0 THEN (IF a.d = 0 THEN NaN ELSE Num(0))
    ELSE IF b.n = 0 THEN [n |-> Sign(a.n), d |-> 0]
    ELSE IF a.d = 0 THEN [n |-> a.n * Sign(b.n), d |-> 0]
    ELSE Mul(a, Frac(b.d, b.n))

\* Python scalar division where the divisor is known not to be zero
\* (a zero divisor raises ZeroDivisionError: the callers test it first)
PyDiv(a, b) == Mul(a, Frac(b.d, b.n))

\* b ** k for an integer k >= 0
RECURSIVE Pow(_, _)
Pow(b, k) == IF k = 0 THEN Num(1) ELSE Mul(b, Pow(b, k - 1))

-----------------------------------------------------------------------------
(* Python values of the price_to_rent argument: None, an int, a float or a *)
(* tuple.  v holds the numbers: none, one, or (start, end).                *)

PyNone == [type |-> "NoneType", v |-> <<>>]

PyInt(i) == [type |-> "int", v |-> <<Num(i)>>]

PyFloat(x) == [type |-> "float", v |-> <<x>>]

PyTuple(s, e) == [type |-> "tuple", v |-> <<s, e>>]

DigitChar(k) == <<"0", "1", "2", "3", "4", "5", "6", "7", "8", "9">>[k + 1]

Digits == {DigitChar(k) : k \in 0..9}

\* str() of a non-negative int
RECURSIVE NatStr(_)
NatStr(i) == IF i < 10 THEN <<DigitChar(i)>>
             ELSE NatStr(i \div 10) \o <<DigitChar(i % 10)>>

\* the digits after the decimal point of r/d (r < d), for a terminating decimal
RECURSIVE FracStr(_, _)
FracStr(r, d) ==
    LET q == (r * 10) \div d
        m == (r * 10) % d
    IN  IF m = 0 THEN <<DigitChar(q)>> ELSE <<DigitChar(q)>> \o FracStr(m, d)

\* str() of a number: "20", "-3", "20.5", "20.0"
NumStr(type, x) ==
    LET a == Abs(x.n)
        s == IF x.n < 0 THEN <<"-">> ELSE <<>>
    IN  IF type = "int" THEN s \o NatStr(a)
        ELSE s \o NatStr(a \div x.d) \o <<".">> \o FracStr(a % x.d, x.d)

\* str(price_to_rent), a sequence of characters
PyStr(p) ==
    CASE p.type = "NoneType" -> <<"N", "o", "n", "e">>
      [] p.type = "tuple"    -> <<"(">> \o NumStr("int", p.v[1]) \o <<",", " ">>
                                  \o NumStr("int", p.v[2]) \o <<")">>
      [] OTHER               -> NumStr(p.type, p.v[1])

\* str.isnumeric(): a non-empty string of digits only
IsNumeric(s) == Len(s) > 0 /\ \A i \in 1..Len(s) : s[i] \in Digits

-----------------------------------------------------------------------------
(* HousingMarket.__init__ *)

DefaultMktValue == 500000

\* lines 32-37: what self.price_to_rent is first set to (<<>> is None)
InitPriceToRent(price_to_rent) ==
    IF price_to_rent.type = "tuple" THEN price_to_rent.v
    ELSE IF IsNumeric(PyStr(price_to_rent))
         THEN <<price_to_rent.v[1], price_to_rent.v[1]>>
    ELSE <<>>

\* line 48: nothing was provided
NothingProvided(a) ==
    a.mkt_value = <<>> /\ a.monthly_rent = <<>> /\ a.price_to_rent.type = "NoneType"

\* line 52
BothGiven(a) == a.mkt_value # <<>> /\ a.monthly_rent # <<>>

\* a variant of ResolvedPriceToRent: a price_to_rent that was passed wins over
\* the ratio of mkt_value and monthly_rent
ResolvedPriceToRentArgFirst(a) ==
    IF a.price_to_rent.type # "NoneType" THEN InitPriceToRent(a.price_to_rent)
    ELSE IF BothGiven(a)
    THEN LET ptr == PyDiv(a.mkt_value[1], Mul(Num(12), a.monthly_rent[1]))
         IN  <<ptr, ptr>>
    ELSE <<>>

\* lines 52-54: self.price_to_rent after the resolution
ResolvedPriceToRent(a) ==
    IF BothGiven(a)
    THEN LET ptr == PyDiv(a.mkt_value[1], Mul(Num(12), a.monthly_rent[1]))
         IN  <<ptr, ptr>>
    ELSE InitPriceToRent(a.price_to_rent)

\* "mkt_value or 5e5": None and 0 are falsy
MktValueOrDefault(mkt_value) ==
    IF mkt_value = <<>> \/ IsZero(mkt_value[1]) THEN <<Num(DefaultMktValue)>>
    ELSE mkt_value

\* lines 29, 52-56: self.mkt_value after the resolution
ResolvedMktValue(a) ==
    IF BothGiven(a) THEN a.mkt_value
    ELSE IF a.price_to_rent.type # "NoneType" THEN MktValueOrDefault(a.mkt_value)
    ELSE a.mkt_value

\* lines 29-46: the attributes set before anything is resolved
\* (capital, years and pretax_df do not exist yet: <<>>)
InitialAttrs(a) ==
    [mkt_value |-> a.mkt_value,
     monthly_rent |-> a.monthly_rent,
     growth |-> a.growth,
     price_to_rent |-> InitPriceToRent(a.price_to_rent),
     capital_gain |-> a.capital_gain,
     transaction_fee |-> a.transaction_fee,
     mortgage_rate |-> a.mortgage_rate,
     property_tax_annual |-> a.property_tax,
     mortgage_fee |-> a.mortgage_fee,
     downpayment |-> a.downpayment,
     management_fee |-> a.management_fee,
     rental_tax_n_depreciation |-> a.rental_tax_n_depreciation,
     interest_rate |-> a.interest_rate,
     capital |-> <<>>,
     years |-> <<>>,
     pretax_df |-> 0]

\* how __init__ ends: "unresolved" is the printed message and the plain return of
\* lines 49-50, "ok" the end of the body, the rest are the exceptions raised
InitOutcome(a) ==
    IF NothingProvided(a) THEN "unresolved"
    ELSE IF BothGiven(a) /\ IsZero(Mul(Num(12), a.monthly_rent[1]))
         THEN "ZeroDivisionError"                               \* line 53
    ELSE IF ResolvedMktValue(a) = <<>> THEN "TypeError"         \* line 58
    ELSE "ok"

\* the attributes of self when __init__ ends
InitAttrs(a) ==
    LET o == InitOutcome(a)
        s == InitialAttrs(a)
    IN  IF o \in {"unresolved", "ZeroDivisionError"} THEN s
        ELSE IF o = "TypeError"
             THEN [s EXCEPT !.price_to_rent = ResolvedPriceToRent(a),
                            !.mkt_value = ResolvedMktValue(a)]
        ELSE [s EXCEPT !.price_to_rent = ResolvedPriceToRent(a),
                       !.mkt_value = ResolvedMktValue(a),
                       !.capital = <<Mul(ResolvedMktValue(a)[1], a.downpayment)>>]

-----------------------------------------------------------------------------
(* pandas helpers *)

MonthsPerYear == 12

Rows(frame) == Len(frame.month)

\* a column holding the same scalar in each of n rows
Broadcast(x, n) == [k \in 1..n |-> x]

\* pd.concat of k copies of a column
RECURSIVE Repeat(_, _)
Repeat(col, k) == IF k <= 0 THEN <<>> ELSE col \o Repeat(col, k - 1)

\* Series.cumprod()
RECURSIVE CumProd(_)
CumProd(col) ==
    IF Len(col) <= 1 THEN col
    ELSE LET front == CumProd(SubSeq(col, 1, Len(col) - 1))
         IN  Append(front, Mul(front[Len(front)], col[Len(col)]))

\* Series.sum(): NaN entries are skipped (skipna), an empty sum is 0
RECURSIVE PdSum(_)
PdSum(col) ==
    IF col = <<>> THEN Num(0)
    ELSE IF IsNaN(col[1]) THEN PdSum(Tail(col))
    ELSE Add(col[1], PdSum(Tail(col)))

\* Series.mean(): the mean of the entries that are not NaN
PdMean(col) ==
    LET kept == SelectSeq(col, LAMBDA x : ~IsNaN(x))
    IN  NpDiv(PdSum(kept), Num(Len(kept)))

\* the keys of a groupby, ascending
RECURSIVE Ascending(_)
Ascending(S) ==
    IF S = {} THEN <<>>
    ELSE LET m == CHOOSE a \in S : \A b \in S : a <= b
         IN  <<m>> \o Ascending(S \ {m})

GroupKeys(frame) == Ascending({frame.years[k] : k \in 1..Rows(frame)})

\* the rows of one group of groupby("years"), in frame order
RECURSIVE GroupRowsUpTo(_, _, _)
GroupRowsUpTo(frame, key, k) ==
    IF k = 0 THEN <<>>
    ELSE IF frame.years[k] = key THEN Append(GroupRowsUpTo(frame, key, k - 1), k)
    ELSE GroupRowsUpTo(frame, key, k - 1)

\* a variant of GroupRows: the last row of the frame is left out
GroupRowsShort(frame, key) == GroupRowsUpTo(frame, key, Rows(frame) - 1)

GroupRows(frame, key) == GroupRowsUpTo(frame, key, Rows(frame))

\* one column of one group
GroupColumn(frame, key, name) ==
    LET rows == GroupRows(frame, key)
    IN  [j \in 1..Len(rows) |-> frame[name][rows[j]]]

-----------------------------------------------------------------------------
(* HousingMarket.run_simulation, stage by stage *)

\* a variant of StoredYears: self.years is kept from the first call on
StoredYearsOnce(old, years) == IF old = <<>> THEN <<years>> ELSE old

\* line 72
StoredYears(old, years) == <<years>>

\* lines 75-78: the months 1..12 once per year, and the year of each row
MonthColumn(years) == Repeat([m \in 1..MonthsPerYear |-> m], years)

\* a variant of YearOfIndex: the "+ 1" is missing
YearOfIndexZeroBased(i) == i \div MonthsPerYear

YearOfIndex(i) == (i \div MonthsPerYear) + 1

NewFrame(years) ==
    LET month == MonthColumn(years)
    IN  [month |-> month, years |-> [k \in 1..Len(month) |-> YearOfIndex(k - 1)]]

\* x ** (1/12) for the x whose root is one of these
Roots12 == {Num(0), Num(1)}

Root12(x) == CHOOSE q \in Roots12 : Pow(q, MonthsPerYear) = x

\* line 81
MonthlyGrowth(growth) == Sub(Root12(Add(growth, Num(1))), Num(1))

\* calc_running_ptr_ratio on a frame of n rows: the exception it raises, or
\* the interpolated column
CalcRunningPtrRatio(n, ptr) ==
    IF ptr = <<>> THEN [raised |-> "TypeError", value |-> <<>>]      \* len(None)
    ELSE IF Len(ptr) # 2 THEN [raised |-> "AssertionError", value |-> <<>>]
    ELSE IF n - 1 = 0 THEN [raised |-> "ZeroDivisionError", value |-> <<>>]
    ELSE LET start == ptr[1]
             end   == ptr[2]
             step  == PyDiv(Sub(end, start), Num(n - 1))
         IN  [raised |-> "",
              value |-> [k \in 1..n |-> Add(start, Mul(step, Num(k - 1)))]]

\* lines 81-85: the exception raised, or the frame with the projected columns
Projection(self, frame) ==
    LET n      == Rows(frame)
        growth == Broadcast(MonthlyGrowth(self.growth), n)
        cum    == CumProd([k \in 1..n |-> Add(growth[k], Num(1))])
        ptr    == CalcRunningPtrRatio(n, self.price_to_rent)
        mv     == [k \in 1..n |-> Mul(self.mkt_value[1], cum[k])]
    IN  IF self.mkt_value = <<>> THEN [raised |-> "TypeError", frame |-> frame]
        ELSE IF ptr.raised # "" THEN [raised |-> ptr.raised, frame |-> frame]
        ELSE [raised |-> "",
              frame |-> frame @@
                  [growth |-> growth,
                   cum_growth |-> cum,
                   market_value |-> mv,
                   ptr_ratio |-> ptr.value,
                   monthly_rent |-> [k \in 1..n |->
                        NpDiv(NpDiv(mv[k], ptr.value[k]), Num(MonthsPerYear))]]]

\* a variant of CheckpointRef: no copy, self.pretax_df is df itself
CheckpointAlias(dfRef) == dfRef

\* line 86: the reference self.pretax_df gets: df.copy() is a new object
CheckpointRef(dfRef) == 2

\* lines 142-144: the locals of mortgage_payments
MortgageLocals(self, frame) ==
    [p |-> Mul(Mul(self.mkt_value[1], Sub(Num(1), self.downpayment)),
               Add(Num(1), self.mortgage_fee)),
     rate_m |-> PyDiv(self.mortgage_rate, Num(MonthsPerYear)),
     n |-> Rows(frame)]

\* line 145: the annuity; a zero denominator raises ZeroDivisionError
AnnuityDenominator(l) == Sub(Pow(Add(Num(1), l.rate_m), l.n), Num(1))

Annuity(l) ==
    PyDiv(Mul(Mul(l.p, l.rate_m), Pow(Add(Num(1), l.rate_m), l.n)),
          AnnuityDenominator(l))

MortgagePayments(self, frame) ==
    LET l == MortgageLocals(self, frame)
    IN  IF IsZero(AnnuityDenominator(l))
        THEN [raised |-> "ZeroDivisionError", frame |-> frame]
        ELSE [raised |-> "",
              frame |-> frame @@ [monthly_mortgage |-> Broadcast(Annuity(l), l.n)]]

\* a variant of CalcPropertyTax: the tax falls due in month 1
CalcPropertyTaxJanuary(self, month, market_value) ==
    IF month = 1 THEN Mul(market_value, self.property_tax_annual) ELSE Num(0)

\* calc_property_tax on one row
CalcPropertyTax(self, month, market_value) ==
    IF month = 12 THEN Mul(market_value, self.property_tax_annual) ELSE Num(0)

\* lines 92-95
Spendings(self, frame) ==
    frame @@ [monthly_spending |-> [k \in 1..Rows(frame) |->
        Add(Add(Mul(frame.monthly_rent[k], self.management_fee),
                Mul(Sub(frame.monthly_rent[k], frame.monthly_mortgage[k]),
                    self.rental_tax_n_depreciation)),
            CalcPropertyTax(self, frame.month[k], frame.market_value[k]))]]

\* line 98
NetIncome(self, frame) ==
    frame @@ [net_income |-> [k \in 1..Rows(frame) |->
        Sub(Sub(frame.monthly_rent[k], frame.monthly_mortgage[k]),
            frame.monthly_spending[k])]]

-----------------------------------------------------------------------------
(* HousingMarket.calc_return *)

\* x ** (1.0/years) - 1, kept as the pair (x, years): the root is not a fraction
Annualized(x, years) == [radicand |-> x, index |-> years]

\* calc_annual_ret on one group
CalcAnnualRet(frame, key) ==
    NpDiv(PdSum(GroupColumn(frame, key, "net_income")),
          PdMean(GroupColumn(frame, key, "market_value")))

\* line 123: a Series indexed by the group keys, ascending
AnnualRentalRet(frame) ==
    LET keys == GroupKeys(frame)
    IN  [j \in 1..Len(keys) |-> [years |-> keys[j], value |-> CalcAnnualRet(frame, keys[j])]]

\* line 126
AnnualIncomeStream(frame) ==
    LET keys == GroupKeys(frame)
    IN  [j \in 1..Len(keys) |->
            [years |-> keys[j], value |-> PdSum(GroupColumn(frame, keys[j], "net_income"))]]

\* lines 104-106: the two columns calc_return adds to df
Discounting(self, frame) ==
    LET r  == Add(Num(1), PyDiv(self.interest_rate, Num(MonthsPerYear)))
        n  == Rows(frame)
        f  == [k \in 1..n |-> Pow(r, (k - 1) + 1)]
    IN  frame @@ [discount_factor |-> f,
                  discounted_net_income |-> [k \in 1..n |-> NpDiv(frame.net_income[k], f[k])]]

\* lines 107-132 on the discounted frame: the dict of results
Results(self, frame) ==
    LET last      == Rows(frame)
        capital   == self.capital[1]
        years     == self.years[1]
        income    == PdSum(frame.discounted_net_income)
        cap_gain  == NpDiv(Mul(Sub(Mul(frame.market_value[last],
                                       Sub(Num(1), self.transaction_fee)),
                                   capital),
                               Sub(Num(1), self.capital_gain)),
                           frame.discount_factor[last])
        total_ret == NpDiv(Add(income, Add(cap_gain, capital)), capital)
    IN  [total_ret |-> Annualized(total_ret, years),
         rental_ret |-> AnnualRentalRet(frame),
         appreciation |-> Annualized(NpDiv(cap_gain, capital), years),
         income_stream |-> AnnualIncomeStream(frame)]

-----------------------------------------------------------------------------
(* The arguments the model constructs the object with *)

Some(i) == <<Num(i)>>

MktValues == {<<>>, Some(0), Some(240)}

MonthlyRents == {<<>>, Some(0), Some(1)}

PriceToRents ==
    {PyNone, PyInt(0), PyInt(20), PyFloat(Frac(41, 2)),
     PyTuple(Num(20), Num(20)), PyTuple(Num(20), Num(25))}

\* annual growth rates whose monthly equivalent is a fraction
Growths == {Num(0), Num(0 - 1)}

\* 0, and the one rate whose annuity is a small fraction (1 + rate/12 = 0)
MortgageRates == {Num(0), Num(0 - 12)}

\* a rising price-to-rent path under a market value that is not zero gives
\* yearly sums whose exact fractions do not fit the model checker's integers
Representable(a) ==
    \/ BothGiven(a)
    \/ a.price_to_rent.type # "tuple"
    \/ a.price_to_rent.v[1] = a.price_to_rent.v[2]
    \/ a.growth = Num(0 - 1)

\* the other parameters have the defaults of the signature, but for the
\* discount rate, which is 0 (the powers of 1 + 0.015/12 are not small)
ArgSets ==
    {a \in [mkt_value : MktValues,
            monthly_rent : MonthlyRents,
            price_to_rent : PriceToRents,
            growth : Growths,
            mortgage_rate : MortgageRates,
            rental_tax_n_depreciation : {Frac(1, 10)},
            capital_gain : {Frac(2, 10)},
            transaction_fee : {Frac(5, 100)},
            property_tax : {Frac(15, 1000)},
            interest_rate : {Num(0)},
            mortgage_fee : {Frac(1, 100)},
            downpayment : {Frac(3, 100)},
            management_fee : {Frac(8, 100)}] : Representable(a)}

YearsArgs == 0..MaxYears

NoArgs == [mkt_value |-> <<>>]

NoFrame == [month |-> <<>>]

NoLocals == [p |-> Num(0), rate_m |-> Num(0), n |-> 0]

-----------------------------------------------------------------------------
(* The object: construction, then any number of run_simulation calls *)

Init ==
    /\ args \in ArgSets
    /\ ctor = "pending"
    /\ obj = NoArgs
    /\ pc = "idle"
    /\ y = 0
    /\ df = 1
    /\ frames = [r \in {1, 2} |-> NoFrame]
    /\ mort = NoLocals
    /\ ret = <<>>
    /\ err = ""
    /\ prev = <<>>
    /\ pin = <<>>
    /\ pout = <<>>

\* HousingMarket(**args)
Construct ==
    /\ ctor = "pending"
    /\ ctor' = InitOutcome(args)
    /\ obj' = InitAttrs(args)
    /\ UNCHANGED <<args, pc, y, df, frames, mort, ret, err, prev, pin, pout>>

\* an exception leaves run_simulation
Raise(name) ==
    /\ pc' = "idle"
    /\ err' = name
    /\ ret' = <<>>

\* lines 72-78: the call; pd.concat of no frames raises ValueError
RunStart ==
    /\ ctor \in {"ok", "unresolved"}
    /\ pc = "idle"
    /\ \E years \in YearsArgs :
        /\ y' = years
        /\ prev' = IF obj.years = <<>> THEN <<>> ELSE <<y>>
        /\ obj' = [obj EXCEPT !.years = StoredYears(obj.years, years)]
        /\ df' = 1
        /\ mort' = NoLocals
        /\ IF years < 1
           THEN Raise("ValueError") /\ UNCHANGED frames
           ELSE /\ frames' = [frames EXCEPT ![1] = NewFrame(years)]
                /\ pc' = "projection"
                /\ err' = ""
                /\ ret' = <<>>
    /\ UNCHANGED <<args, ctor, pin, pout>>

\* lines 81-85
RunProjection ==
    /\ pc = "projection"
    /\ LET r == Projection(obj, frames[df])
       IN  IF r.raised # ""
           THEN Raise(r.raised) /\ UNCHANGED frames
           ELSE /\ frames' = [frames EXCEPT ![df] = r.frame]
                /\ pc' = "checkpoint"
                /\ UNCHANGED <<ret, err>>
    /\ UNCHANGED <<args, ctor, obj, y, df, mort, prev, pin, pout>>

\* line 86
RunCheckpoint ==
    /\ pc = "checkpoint"
    /\ obj' = [obj EXCEPT !.pretax_df = CheckpointRef(df)]
    /\ frames' = [frames EXCEPT ![CheckpointRef(df)] = frames[df]]
    /\ pc' = "mortgage"
    /\ UNCHANGED <<args, ctor, y, df, mort, ret, err, prev, pin, pout>>

\* line 89: mortgage_payments writes its column into the frame it was given
RunMortgage ==
    /\ pc = "mortgage"
    /\ mort' = MortgageLocals(obj, frames[df])
    /\ LET r == MortgagePayments(obj, frames[df])
       IN  IF r.raised # ""
           THEN Raise(r.raised) /\ UNCHANGED frames
           ELSE /\ frames' = [frames EXCEPT ![df] = r.frame]
                /\ pc' = "spendings"
                /\ UNCHANGED <<ret, err>>
    /\ UNCHANGED <<args, ctor, obj, y, df, prev, pin, pout>>

\* lines 92-95
RunSpendings ==
    /\ pc = "spendings"
    /\ frames' = [frames EXCEPT ![df] = Spendings(obj, frames[df])]
    /\ pc' = "net_income"
    /\ UNCHANGED <<args, ctor, obj, y, df, mort, ret, err, prev, pin, pout>>

\* line 98
RunNetIncome ==
    /\ pc = "net_income"
    /\ frames' = [frames EXCEPT ![df] = NetIncome(obj, frames[df])]
    /\ pc' = "calc_return"
    /\ UNCHANGED <<args, ctor, obj, y, df, mort, ret, err, prev, pin, pout>>

\* lines 99-100: calc_return adds its columns to df, then both are returned
RunCalcReturn ==
    /\ pc = "calc_return"
    /\ LET full == Discounting(obj, frames[df])
       IN  /\ frames' = [frames EXCEPT ![df] = full]
           /\ ret' = <<[results |-> Results(obj, full), df |-> full]>>
    /\ pc' = "idle"
    /\ UNCHANGED <<args, ctor, obj, y, df, mort, err, prev, pin, pout>>

Next ==
    \/ Construct
    \/ RunStart
    \/ RunProjection
    \/ RunCheckpoint
    \/ RunMortgage
    \/ RunSpendings
    \/ RunNetIncome
    \/ RunCalcReturn

Spec == Init /\ [][Next]_vars

-----------------------------------------------------------------------------
(* calc_running_ptr_ratio called directly, on a frame of any length *)

PathEnds == {Num(0), Num(20), Num(25)}

InitPtr ==
    /\ pin \in [n : 1..MaxRows, ptr : PathEnds \X PathEnds]
    /\ pout = <<>>
    /\ args = NoArgs
    /\ ctor = "pending"
    /\ obj = NoArgs
    /\ pc = "idle"
    /\ y = 0
    /\ df = 1
    /\ frames = [r \in {1, 2} |-> NoFrame]
    /\ mort = NoLocals
    /\ ret = <<>>
    /\ err = ""
    /\ prev = <<>>

CallPtrRatio ==
    /\ pout = <<>>
    /\ pout' = <<CalcRunningPtrRatio(pin.n, pin.ptr)>>
    /\ UNCHANGED <<args, ctor, obj, pc, y, df, frames, mort, ret, err, prev, pin>>

NextPtr == CallPtrRatio

SpecPtr == InitPtr /\ [][NextPtr]_vars

-----------------------------------------------------------------------------
(* Properties *)

\* the last call has ended, by a return or by an exception
CallEnded == pc = "idle" /\ (ret # <<>> \/ err # "")

\* the table of the last return
Table == ret[1].df

\* the object can be used: __init__ ended without an exception
Constructed == ctor \in {"ok", "unresolved"}

\* the inputs resolve a price-to-rent trajectory
Resolvable(a) == BothGiven(a) \/ a.price_to_rent.type # "NoneType"

\* C1: inputs that cannot resolve a price-to-rent trajectory make the
\* construction raise ConfigurationError, so every object whose construction
\* completes has a market value, a (start, end) path and its capital.
C1_UnresolvableRaises ==
    ctor # "pending" =>
        /\ ~Resolvable(args) => ctor = "ConfigurationError"
        /\ Constructed =>
              /\ obj.mkt_value # <<>>
              /\ obj.price_to_rent # <<>> /\ Len(obj.price_to_rent) = 2
              /\ obj.capital # <<>>

\* C2: without both mkt_value and monthly_rent, a positive scalar
\* price_to_rent v (int or float) resolves to the path (v, v) and a pair
\* (s, e) to exactly (s, e).
C2_ScalarOrPairPath ==
    (Constructed /\ ~BothGiven(args)) =>
        LET p == args.price_to_rent
        IN  /\ (p.type \in {"int", "float"} /\ p.v[1].n > 0)
                  => obj.price_to_rent = <<p.v[1], p.v[1]>>
            /\ p.type = "tuple" => obj.price_to_rent = p.v

\* C3: with both mkt_value and monthly_rent given, the path is (ptr, ptr)
\* with ptr = mkt_value / (12 * monthly_rent) whatever price_to_rent was
\* passed, and the market value is the one passed.
C3_BothGivenFlatPath ==
    (ctor = "ok" /\ BothGiven(args)) =>
        LET m   == args.mkt_value[1]
            r   == args.monthly_rent[1]
            ptr == Frac(m.n * r.d, 12 * r.n * m.d)
        IN  /\ obj.price_to_rent = <<ptr, ptr>>
            /\ obj.mkt_value = args.mkt_value

\* C3 happens: both are given together with a pair, and the pair is not used
C3_Witness ==
    /\ ctor = "ok" /\ BothGiven(args)
    /\ args.price_to_rent.type = "tuple"
    /\ obj.price_to_rent # args.price_to_rent.v
    /\ obj.mkt_value = Some(240)

\* C4: run_simulation returns nothing when years < 1, when the mortgage rate
\* is 0 or when some month's price-to-rent ratio is 0.
C4_NoResultOnDomainError ==
    ret # <<>> =>
        /\ y >= 1
        /\ ~IsZero(obj.mortgage_rate)
        /\ \A k \in 1..Rows(Table) : ~IsZero(Table.ptr_ratio[k])

\* run_simulation(years) on a freshly constructed HousingMarket(**a)
FreshRun(a, years) ==
    LET self == [InitAttrs(a) EXCEPT !.years = <<years>>]
        proj == Projection(self, NewFrame(years))
        paid == MortgagePayments(self, proj.frame)
        full == Discounting(self, NetIncome(self, Spendings(self, paid.frame)))
    IN  IF years < 1 THEN [ret |-> <<>>, err |-> "ValueError"]
        ELSE IF proj.raised # "" THEN [ret |-> <<>>, err |-> proj.raised]
        ELSE IF paid.raised # "" THEN [ret |-> <<>>, err |-> paid.raised]
        ELSE [ret |-> <<[results |-> Results(self, full), df |-> full]>>, err |-> ""]

\* C5: whatever calls were made before, a call run_simulation(y) ends as it
\* does on a freshly constructed identical object: the same table and
\* results, or the same exception.
C5_RunIsPure ==
    CallEnded => [ret |-> ret, err |-> err] = FreshRun(args, y)

\* C5 happens: a call returned after an earlier call with another years value
C5_Witness ==
    /\ ret # <<>>
    /\ prev # <<>> /\ prev[1] >= 1 /\ prev[1] # y

\* C6: in every returned row, monthly_spending is
\* management_fee * rent + rental_tax_n_depreciation * (rent - mortgage),
\* plus property_tax * market_value in month 12 and nothing else in the other
\* months; month 12 occurs exactly years times.
C6_PropertyTaxInDecember ==
    ret # <<>> =>
        /\ \A k \in 1..Rows(Table) :
              LET base == Add(Mul(obj.management_fee, Table.monthly_rent[k]),
                              Mul(obj.rental_tax_n_depreciation,
                                  Sub(Table.monthly_rent[k], Table.monthly_mortgage[k])))
                  tax  == Mul(obj.property_tax_annual, Table.market_value[k])
              IN  Table.monthly_spending[k] =
                      IF Table.month[k] = 12 THEN Add(base, tax) ELSE base
        /\ Cardinality({k \in 1..Rows(Table) : Table.month[k] = 12}) = y

\* C6 happens: two years returned, each December costs more than its November
C6_Witness ==
    /\ ret # <<>> /\ y = 2
    /\ Table.monthly_spending[12].d # 0
    /\ Table.monthly_spending[12] # Table.monthly_spending[11]
    /\ Table.monthly_spending[24] # Table.monthly_spending[23]
    /\ Table.monthly_spending[1] = Table.monthly_spending[11]

\* C7: the income stream has the keys 1..years in ascending order, each value
\* is the sum (as pandas sums: NaN rows skipped) of net_income over the 12 rows
\* of that year, and the values add up to the sum over all rows.
C7_IncomeStreamByYear ==
    ret # <<>> =>
        LET s == ret[1].results.income_stream
        IN  /\ Len(s) = y
            /\ \A j \in 1..Len(s) :
                  /\ s[j].years = j
                  /\ s[j].value = PdSum(SubSeq(Table.net_income, 12 * (j - 1) + 1, 12 * j))
            /\ PdSum([j \in 1..Len(s) |-> s[j].value]) = PdSum(Table.net_income)

\* C7 happens: two years returned with an income that is a non-zero number
C7_Witness ==
    /\ ret # <<>> /\ y = 2
    /\ Len(ret[1].results.income_stream) = 2
    /\ ret[1].results.income_stream[2].value.d # 0
    /\ ret[1].results.income_stream[2].value.n # 0

\* C8: on a frame of N rows calc_running_ptr_ratio gives, at index i,
\* start + (end - start) * i / (N - 1), and for N = 1 the division by zero is
\* guarded and the result is start.
C8_InterpolationGuarded ==
    pout # <<>> =>
        LET start == pin.ptr[1]
            end   == pin.ptr[2]
        IN  /\ pout[1].raised = ""
            /\ Len(pout[1].value) = pin.n
            /\ \A k \in 1..pin.n :
                  pout[1].value[k] =
                      IF pin.n = 1 THEN start
                      ELSE Add(start, Mul(Sub(end, start), Frac(k - 1, pin.n - 1)))

\* C9: a returned table has years * 12 rows, row k (from 0) has month
\* (k mod 12) + 1 and year (k div 12) + 1, the years are 1..years with 12 rows
\* each, and the mortgage payment is the annuity over n = years * 12 payments.
C9_TableShape ==
    ret # <<>> =>
        /\ y >= 1
        /\ \A c \in DOMAIN Table : Len(Table[c]) = y * 12
        /\ \A k \in 0..(y * 12 - 1) :
              /\ Table.month[k + 1] = (k % 12) + 1
              /\ Table.years[k + 1] = (k \div 12) + 1
        /\ {Table.years[k] : k \in 1..Rows(Table)} = 1..y
        /\ \A yr \in 1..y : Cardinality({k \in 1..Rows(Table) : Table.years[k] = yr}) = 12
        /\ mort.n = y * 12
        /\ \A k \in 1..Rows(Table) :
              Table.monthly_mortgage[k] = Annuity([mort EXCEPT !.n = y * 12])

\* C9 happens: a two-year table was returned
C9_Witness ==
    /\ ret # <<>> /\ y = 2
    /\ Rows(Table) = 24
    /\ Table.years[24] = 2

PretaxColumns ==
    {"month", "years", "growth", "cum_growth", "market_value", "ptr_ratio", "monthly_rent"}

LaterColumns ==
    {"monthly_mortgage", "monthly_spending", "net_income",
     "discount_factor", "discounted_net_income"}

StageRank(p) ==
    CASE p = "projection"  -> 1
      [] p = "checkpoint"  -> 2
      [] p = "mortgage"    -> 3
      [] p = "spendings"   -> 4
      [] p = "net_income"  -> 5
      [] p = "calc_return" -> 6

AfterCheckpoint == {"mortgage", "spendings", "net_income", "calc_return"}

\* the checkpoint step stores the table as the projection left it
CheckpointIsProjection ==
    pc = "checkpoint" => frames'[obj'.pretax_df] = frames[df]

\* no later stage changes the checkpointed table
CheckpointUntouched ==
    pc \in AfterCheckpoint => frames'[obj'.pretax_df] = frames[obj.pretax_df]

\* a step moves to the next stage, or leaves the call; a call starts with the
\* projection and returns from the return aggregation
StagesInOrder ==
    /\ (pc # "idle" /\ pc' # "idle") => StageRank(pc') = StageRank(pc) + 1
    /\ (pc = "idle" /\ pc' # "idle") => pc' = "projection"
    /\ (ret = <<>> /\ ret' # <<>>) => pc = "calc_return"

\* C10: the stages run in the order projection, checkpoint, mortgage,
\* spendings, net income, return aggregation; the checkpoint is the table as
\* the projection left it and no later stage changes it: after the return it
\* has the seven projected columns with the values of the returned table and
\* none of the later columns, which the returned table all has.
C10_CheckpointKept ==
    /\ [](ret # <<>> =>
            /\ DOMAIN frames[obj.pretax_df] = PretaxColumns
            /\ DOMAIN Table = PretaxColumns \cup LaterColumns
            /\ \A c \in PretaxColumns : frames[obj.pretax_df][c] = Table[c])
    /\ [][CheckpointIsProjection]_vars
    /\ [][CheckpointUntouched]_vars
    /\ [][StagesInOrder]_vars

\* C10 happens: a call returned, and the checkpoint is not the returned table
C10_Witness ==
    /\ ret # <<>>
    /\ DOMAIN frames[obj.pretax_df] = PretaxColumns
    /\ frames[obj.pretax_df] # Table
    /\ Rows(frames[obj.pretax_df]) = Rows(Table)

=============================================================================
